---- MODULE Spec2Model ----
(***************************************************************************)
(* Model of the two extension hooks of contrib/extensions:                 *)
(*   git-tagger/hook.py        (create_tag, main)                          *)
(*   commit-validator/hook.py  (get_commits_since_last_tag,                *)
(*                              validate_conventional_commit,              *)
(*                              validate_commits, main)                    *)
(* Text that the code inspects character by character (commit messages,    *)
(* git log output) is a sequence of one-character strings; text that the   *)
(* code only builds and compares (tag names, response messages) is a       *)
(* string.                                                                 *)
(***************************************************************************)
EXTENDS Integers, Sequences, FiniteSets, TLC

VARIABLES
  \* repository in project_root (the collaborator's state)
  tags,          \* names of the local tags
  remoteTags,    \* names of the tags on origin
  history,       \* commit subjects, newest first
  nearestTag,    \* <<t>>: the tag describe finds from HEAD; <<>>: none reachable
  markerDepth,   \* number of commits newer than nearestTag
  \* one hook process
  pc,            \* position of the invocation
  hook,          \* which hook.py runs
  stdin,         \* the document on standard input
  last_tag,      \* get_commits_since_last_tag: <<tag>> once describe succeeded
  commits,       \* main (validator): the commit list retrieved
  checked,       \* number of calls of validate_conventional_commit
  cmds,          \* git commands issued so far by this invocation, with outcome
  stdout,        \* response objects printed so far
  exitCode,      \* <<>> while running, <<code>> once exited
  tagsBefore,    \* tags when the invocation started
  prev,          \* the previous finished invocation
  \* a single direct call of validate_conventional_commit
  message, allowed_types, require_scope, result

repoVars == <<tags, remoteTags, history, nearestTag, markerDepth>>
valVars == <<last_tag, commits, checked>>
procVars == <<pc, hook, stdin, last_tag, commits, checked, cmds, stdout, exitCode,
              tagsBefore, prev>>
callVars == <<message, allowed_types, require_scope, result>>
vars == <<tags, remoteTags, history, nearestTag, markerDepth,
          pc, hook, stdin, last_tag, commits, checked, cmds, stdout, exitCode,
          tagsBefore, prev,
          message, allowed_types, require_scope, result>>

----------------------------------------------------------------------------
(* Bounds *)

\* longest commit history of the repository
MaxHist == 2

\* longest message over MessageAlphabet given to validate_conventional_commit
MaxMsgLen == 4

----------------------------------------------------------------------------
(* Characters and strings *)

LowerCase == <<"a","b","c","d","e","f","g","h","i","j","k","l","m",
               "n","o","p","q","r","s","t","u","v","w","x","y","z">>
UpperCase == <<"A","B","C","D","E","F","G","H","I","J","K","L","M",
               "N","O","P","Q","R","S","T","U","V","W","X","Y","Z">>
Digits == {"0","1","2","3","4","5","6","7","8","9"}

\* [a-z]
IsLower(c) == \E i \in 1..26 : LowerCase[i] = c

\* [a-z0-9\-]
IsScopeChar(c) == IsLower(c) \/ c \in Digits \/ c = "-"

\* \s, and what str.strip() removes
IsSpace(c) == c \in {" ", "\t", "\n", "\r", "\f"}

\* str.lower() on one character
LowerChar(c) ==
  IF \E i \in 1..26 : UpperCase[i] = c
  THEN LowerCase[CHOOSE i \in 1..26 : UpperCase[i] = c]
  ELSE c

\* str.lower()
Lower(s) == [i \in 1..Len(s) |-> LowerChar(s[i])]

\* the text of a character sequence
RECURSIVE Str(_)
Str(s) == IF s = <<>> THEN "" ELSE Head(s) \o Str(Tail(s))

\* sep.join(list) for a list of strings
RECURSIVE JoinStr(_, _)
JoinStr(list, sep) ==
  IF list = <<>> THEN ""
  ELSE IF Len(list) = 1 THEN list[1]
  ELSE list[1] \o sep \o JoinStr(Tail(list), sep)

\* str.strip()
RECURSIVE LStrip(_)
LStrip(s) == IF s # <<>> /\ IsSpace(Head(s)) THEN LStrip(Tail(s)) ELSE s
RECURSIVE RStrip(_)
RStrip(s) ==
  IF s # <<>> /\ IsSpace(s[Len(s)]) THEN RStrip(SubSeq(s, 1, Len(s) - 1)) ELSE s
Strip(s) == RStrip(LStrip(s))

\* str.split("\n")
RECURSIVE SplitLines(_)
SplitLines(s) ==
  IF \E i \in 1..Len(s) : s[i] = "\n"
  THEN LET i == CHOOSE j \in 1..Len(s) :
                  s[j] = "\n" /\ \A k \in 1..(j - 1) : s[k] # "\n"
       IN  <<SubSeq(s, 1, i - 1)>> \o SplitLines(SubSeq(s, i + 1, Len(s)))
  ELSE <<s>>

\* "\n".join(list) for a list of character sequences
RECURSIVE JoinLines(_)
JoinLines(list) ==
  IF list = <<>> THEN <<>>
  ELSE IF Len(list) = 1 THEN list[1]
  ELSE list[1] \o <<"\n">> \o JoinLines(Tail(list))

----------------------------------------------------------------------------
(* commit-validator: validate_conventional_commit *)

\* length of the longest prefix of s matched by [a-z]*
TypeLen(s) ==
  CHOOSE k \in 0..Len(s) :
    /\ \A i \in 1..k : IsLower(s[i])
    /\ (k < Len(s) => ~IsLower(s[k + 1]))

\* positions c of the ":" that can follow ([a-z]+) and the scope group
ColonAfterType(s, scoped_only) ==
  LET k == TypeLen(s)
  IN  IF k = 0 THEN {}
      ELSE {c \in (k + 1)..Len(s) :
              /\ s[c] = ":"
              /\ \/ (~scoped_only /\ c = k + 1)
                 \/ /\ c >= k + 4
                    /\ s[k + 1] = "("
                    /\ s[c - 1] = ")"
                    /\ \A i \in (k + 2)..(c - 2) : IsScopeChar(s[i])}

\* RestMatches for \s+\S.*$, a description that must not begin with a blank
RestMatches_NoBlank(s, c) ==
  \E w \in 1..(Len(s) - c) :
    /\ \A i \in (c + 1)..(c + w) : IsSpace(s[i])
    /\ c + w + 1 <= Len(s) /\ ~IsSpace(s[c + w + 1])
    /\ \E e \in {Len(s), Len(s) - 1} :
         /\ e >= c + w + 1
         /\ (e = Len(s) - 1 => s[Len(s)] = "\n")
         /\ \A i \in (c + w + 1)..e : s[i] # "\n"

\* \s+.{1,}$ matched from position c + 1 to the end of s
RestMatches(s, c) ==
  \E w \in 1..(Len(s) - c) :
    /\ \A i \in (c + 1)..(c + w) : IsSpace(s[i])
    /\ \E e \in {Len(s), Len(s) - 1} :
         /\ e >= c + w + 1
         /\ (e = Len(s) - 1 => s[Len(s)] = "\n")
         /\ \A i \in (c + w + 1)..e : s[i] # "\n"

\* re.match(pattern, s) is not None, for the pattern require_scope selects
PatternMatches(s, scoped_only) ==
  \E c \in ColonAfterType(s, scoped_only) : RestMatches(s, c)

\* match.group(1)
Group1(s) == SubSeq(s, 1, TypeLen(s))

FormatErrorScope == "must match format 'type(scope): description'"
FormatErrorAny ==
  "must match format 'type: description' or 'type(scope): description'"

TypeError(commit_type, allowed) ==
  "type '" \o Str(commit_type) \o "' not in allowed types: "
    \o JoinStr([i \in 1..Len(allowed) |-> Str(allowed[i])], ", ")

\* `commit_type not in allowed_types`
NotInList(x, list) == \A i \in 1..Len(list) : list[i] # x

\* validate_conventional_commit with `if commit_type not in allowed_types`
validate_conventional_commit_no_empty(msg, allowed, scope) ==
  LET s == Lower(msg)
  IN  IF ~PatternMatches(s, scope)
      THEN IF scope THEN <<FALSE, FormatErrorScope>> ELSE <<FALSE, FormatErrorAny>>
      ELSE IF NotInList(Group1(s), allowed)
           THEN <<FALSE, TypeError(Group1(s), allowed)>>
           ELSE <<TRUE, "">>

\* validate_conventional_commit looking at the type before the shape
validate_conventional_commit_type_first(msg, allowed, scope) ==
  LET s == Lower(msg)
  IN  IF TypeLen(s) > 0 /\ allowed # <<>> /\ NotInList(Group1(s), allowed)
      THEN <<FALSE, TypeError(Group1(s), allowed)>>
      ELSE IF ~PatternMatches(s, scope)
      THEN IF scope THEN <<FALSE, FormatErrorScope>> ELSE <<FALSE, FormatErrorAny>>
      ELSE <<TRUE, "">>

\* validate_conventional_commit with the optional-scope pattern in both cases
validate_conventional_commit_one_pattern(msg, allowed, scope) ==
  LET s == Lower(msg)
  IN  IF ~PatternMatches(s, FALSE)
      THEN IF scope THEN <<FALSE, FormatErrorScope>> ELSE <<FALSE, FormatErrorAny>>
      ELSE IF allowed # <<>> /\ NotInList(Group1(s), allowed)
           THEN <<FALSE, TypeError(Group1(s), allowed)>>
           ELSE <<TRUE, "">>

\* validate_conventional_commit matching the message as it is written
validate_conventional_commit_case_sensitive(msg, allowed, scope) ==
  LET s == msg
  IN  IF ~PatternMatches(s, scope)
      THEN IF scope THEN <<FALSE, FormatErrorScope>> ELSE <<FALSE, FormatErrorAny>>
      ELSE IF allowed # <<>> /\ NotInList(Group1(s), allowed)
           THEN <<FALSE, TypeError(Group1(s), allowed)>>
           ELSE <<TRUE, "">>

\* the result pair (is_valid, error_message)
validate_conventional_commit(msg, allowed, scope) ==
  LET s == Lower(msg)
  IN  IF ~PatternMatches(s, scope)
      THEN IF scope THEN <<FALSE, FormatErrorScope>> ELSE <<FALSE, FormatErrorAny>>
      ELSE IF allowed # <<>> /\ NotInList(Group1(s), allowed)
           THEN <<FALSE, TypeError(Group1(s), allowed)>>
           ELSE <<TRUE, "">>

----------------------------------------------------------------------------
(* Requests *)

\* dict.get(key, default) on an optional value: <<>> absent, <<v>> present
Get(opt, default) == IF opt = <<>> THEN default ELSE opt[1]

\* the "config" object; isObject is FALSE for a JSON value without .get (null)
EmptyConfig ==
  [isObject |-> TRUE, prefix |-> <<>>, annotated |-> <<>>, sign |-> <<>>,
   message |-> <<>>, push |-> <<>>, allowed_types |-> <<>>, require_scope |-> <<>>]
NullConfig == [EmptyConfig EXCEPT !.isObject = FALSE]

\* a document on standard input
\* str(e) of the JSONDecodeError that json.load raises on a malformed document
JsonErrorTexts ==
  {"Expecting value: line 1 column 1 (char 0)",
   "Extra data: line 1 column 3 (char 2)"}

\* parse: what json.load makes of the document; error: the text of its error
InvalidDoc(e) ==
  [parse |-> "invalid", error |-> e, version |-> <<>>, project_root |-> <<>>,
   config |-> <<>>]
NonObjectDoc ==
  [parse |-> "nonobject", error |-> "", version |-> <<>>, project_root |-> <<>>,
   config |-> <<>>]
ObjectDoc(v, r, c) ==
  [parse |-> "object", error |-> "", version |-> v, project_root |-> r, config |-> c]
InvalidDocs == {InvalidDoc(e) : e \in JsonErrorTexts}

Versions == {"1.0", "1.1"}
ProjectRoot == "/repo"

TaggerConfigs ==
  {<<>>, <<NullConfig>>, <<EmptyConfig>>,
   <<[EmptyConfig EXCEPT !.push = <<TRUE>>]>>,
   <<[EmptyConfig EXCEPT !.prefix = <<"release-">>, !.push = <<TRUE>>]>>,
   <<[EmptyConfig EXCEPT !.annotated = <<FALSE>>, !.sign = <<TRUE>>]>>,
   <<[EmptyConfig EXCEPT !.sign = <<TRUE>>,
                         !.message = <<<<"Version ", "{version}", "!">>>>]>>}

\* requests to the tagger whose version, when given and not empty, is in vs
TaggerDocs(vs) ==
  (InvalidDocs \cup {NonObjectDoc})
    \cup {ObjectDoc(v, r, <<>>) :
            v \in {<<>>, <<"">>, <<"1.0">>}, r \in {<<>>, <<"">>, <<ProjectRoot>>}}
    \cup {ObjectDoc(<<v>>, <<ProjectRoot>>, c) : v \in vs, c \in TaggerConfigs}

\* requests of the successive invocations of the tagger
RepeatedDocs ==
  {ObjectDoc(<<>>, <<ProjectRoot>>, <<>>)}
    \cup {ObjectDoc(<<v>>, <<ProjectRoot>>, c) :
            v \in Versions, c \in {<<>>, <<[EmptyConfig EXCEPT !.push = <<TRUE>>]>>}}

fix == <<"f","i","x">>
ci == <<"c","i">>
DefaultAllowedTypes ==
  << <<"f","e","a","t">>, fix, <<"d","o","c","s">>, <<"s","t","y","l","e">>,
     <<"r","e","f","a","c","t","o","r">>, <<"p","e","r","f">>, <<"t","e","s","t">>,
     <<"b","u","i","l","d">>, ci, <<"c","h","o","r","e">> ,
     <<"r","e","v","e","r","t">> >>

ValidatorConfigs ==
  {<<>>, <<NullConfig>>, <<EmptyConfig>>,
   <<[EmptyConfig EXCEPT !.allowed_types = << <<>> >>]>>,
   <<[EmptyConfig EXCEPT !.allowed_types = << <<ci>> >>]>>,
   <<[EmptyConfig EXCEPT !.require_scope = <<TRUE>>]>>,
   <<[EmptyConfig EXCEPT !.allowed_types = << <<>> >>, !.require_scope = <<TRUE>>]>>}

ValidatorDocs ==
  (InvalidDocs \cup {NonObjectDoc})
    \cup {ObjectDoc(<<>>, r, c) : r \in {<<>>, <<"">>}, c \in {<<>>, <<EmptyConfig>>}}
    \cup {ObjectDoc(<<>>, <<ProjectRoot>>, c) : c \in ValidatorConfigs}

\* commit subjects of the repository; a commit may have an empty subject
Subjects ==
  { <<>>,
    <<"F","i","x","(","a","-","1",")",":"," ","x">>,
    <<"w","i","p",":"," ","z">>,
    <<"o","o","p","s">> }

RECURSIVE SeqsUpTo(_, _)
SeqsUpTo(S, n) ==
  IF n = 0 THEN {<<>>}
  ELSE LET shorter == SeqsUpTo(S, n - 1)
       IN  shorter \cup {Append(h, x) : h \in {g \in shorter : Len(g) = n - 1}, x \in S}

----------------------------------------------------------------------------
(* Hook processes and the version-control collaborator *)

Procs == {1, 2}

\* stderr texts of a failing git command, and str(e) of an exception other
\* than CalledProcessError raised by subprocess.run
ErrTexts == {"", "fatal: error"}
ExcTexts == {"", "[Errno 2] No such file or directory: 'git'"}

\* outcomes of run_git_command as the caller sees them
GitOutcomes ==
  {[res |-> "ok", text |-> ""]}
    \cup {[res |-> "fail", text |-> e] : e \in ErrTexts}
    \cup {[res |-> "raise", text |-> e] : e \in ExcTexts}

NoData == [commits_checked |-> <<>>, invalid_count |-> <<>>, invalid_commits |-> <<>>]

Response(success, msg, data) == [success |-> success, message |-> msg, data |-> data]

\* Emit that exits without printing the response
Emit_Silent(p, success, msg, data, code) ==
  /\ stdout' = stdout
  /\ exitCode' = [exitCode EXCEPT ![p] = <<code>>]
  /\ pc' = [pc EXCEPT ![p] = "exited"]

\* Emit that exits with code 0 whatever the response
Emit_ExitZero(p, success, msg, data, code) ==
  /\ stdout' = [stdout EXCEPT ![p] = Append(@, Response(success, msg, data))]
  /\ exitCode' = [exitCode EXCEPT ![p] = <<0>>]
  /\ pc' = [pc EXCEPT ![p] = "exited"]

\* print(json.dumps(result)); sys.exit(code)
Emit(p, success, msg, data, code) ==
  /\ stdout' = [stdout EXCEPT ![p] = Append(@, Response(success, msg, data))]
  /\ exitCode' = [exitCode EXCEPT ![p] = <<code>>]
  /\ pc' = [pc EXCEPT ![p] = "exited"]

\* EmitUnexpected printing str(e) alone
EmitUnexpected_Bare(p, detail) == Emit(p, FALSE, detail, NoData, 1)

\* the handler `except Exception as e` of main
EmitUnexpected(p, detail) == Emit(p, FALSE, "Unexpected error: " \o detail, NoData, 1)

\* run_git_command called: the command and its outcome are noted (text is the
\* stderr of a failed command or the text of the exception)
Issue(p, args, o) ==
  cmds' = [cmds EXCEPT ![p] = Append(@, [args |-> args, res |-> o.res, text |-> o.text])]

NoGetOnList == "'list' object has no attribute 'get'"
NoGetOnNone == "'NoneType' object has no attribute 'get'"

\* a new process is started by the host with a document on its standard input
Start(p, h, doc) ==
  /\ pc[p] \in {"idle", "exited"}
  /\ pc' = [pc EXCEPT ![p] = "main"]
  /\ hook' = [hook EXCEPT ![p] = h]
  /\ stdin' = [stdin EXCEPT ![p] = doc]
  /\ last_tag' = [last_tag EXCEPT ![p] = <<>>]
  /\ commits' = [commits EXCEPT ![p] = <<>>]
  /\ checked' = [checked EXCEPT ![p] = 0]
  /\ cmds' = [cmds EXCEPT ![p] = <<>>]
  /\ stdout' = [stdout EXCEPT ![p] = <<>>]
  /\ exitCode' = [exitCode EXCEPT ![p] = <<>>]
  /\ tagsBefore' = [tagsBefore EXCEPT ![p] = tags]
  /\ UNCHANGED <<repoVars, callVars>>

\* what is kept of a finished invocation
Finished(p) ==
  [stdin |-> stdin[p], stdout |-> stdout[p], cmds |-> cmds[p],
   tagsBefore |-> tagsBefore[p]]

StartTagger(p) ==
  /\ \E doc \in TaggerDocs({"1.0"}) : Start(p, "tagger", doc)
  /\ UNCHANGED prev

\* the tagger is invoked again, after an invocation of it that is remembered
InvokeTagger(p) ==
  /\ \E doc \in RepeatedDocs : Start(p, "tagger", doc)
  /\ prev' = IF pc[p] = "exited" THEN <<Finished(p)>> ELSE <<>>

StartValidator(p) ==
  /\ \E doc \in ValidatorDocs : Start(p, "validator", doc)
  /\ UNCHANGED prev

----------------------------------------------------------------------------
(* git-tagger *)

\* config = input_data.get("config", {})
Config(p) == Get(stdin[p].config, EmptyConfig)

Prefix(p) == Get(Config(p).prefix, "v")
Annotated(p) == Get(Config(p).annotated, TRUE)
Sign(p) == Get(Config(p).sign, FALSE)
MessageTemplate(p) == Get(Config(p).message, <<"Release ", "{version}">>)
Push(p) == Get(Config(p).push, FALSE)
Version(p) == stdin[p].version[1]

\* tag_name = f"{prefix}{version}"
TagName(p) == Prefix(p) \o Version(p)

\* message_template.replace("{version}", version); the template is given in
\* pieces, the placeholder being a piece of its own
TagMessage(p) ==
  JoinStr([i \in 1..Len(MessageTemplate(p)) |->
             IF MessageTemplate(p)[i] = "{version}" THEN Version(p)
             ELSE MessageTemplate(p)[i]], "")

TagListArgs(p) == <<"tag", "-l", TagName(p)>>

TagArgs(p) ==
  IF Annotated(p)
  THEN <<"tag", "-a", TagName(p), "-m", TagMessage(p)>>
         \o (IF Sign(p) THEN <<"-s">> ELSE <<>>)
  ELSE <<"tag", TagName(p)>>

PushArgs(p) == <<"push", "origin", TagName(p)>>

\* TaggerMain without the check of project_root
TaggerMain_NoRootCheck(p) ==
  /\ pc[p] = "main" /\ hook[p] = "tagger"
  /\ IF stdin[p].parse = "invalid"
     THEN Emit(p, FALSE, "Invalid JSON input: " \o stdin[p].error, NoData, 1)
     ELSE IF stdin[p].parse = "nonobject"
     THEN EmitUnexpected(p, NoGetOnList)
     ELSE IF Get(stdin[p].version, "") = ""
     THEN Emit(p, FALSE, "Missing required field: version", NoData, 1)
     ELSE IF ~Config(p).isObject
     THEN EmitUnexpected(p, NoGetOnNone)
     ELSE /\ pc' = [pc EXCEPT ![p] = "tag_list_1"]
          /\ UNCHANGED <<stdout, exitCode>>
  /\ UNCHANGED <<repoVars, callVars, hook, stdin, valVars, cmds, tagsBefore, prev>>

\* main, up to the call of create_tag and the reading of its configuration
TaggerMain(p) ==
  /\ pc[p] = "main" /\ hook[p] = "tagger"
  /\ IF stdin[p].parse = "invalid"
     THEN Emit(p, FALSE, "Invalid JSON input: " \o stdin[p].error, NoData, 1)
     ELSE IF stdin[p].parse = "nonobject"
     THEN EmitUnexpected(p, NoGetOnList)
     ELSE IF Get(stdin[p].version, "") = ""
     THEN Emit(p, FALSE, "Missing required field: version", NoData, 1)
     ELSE IF Get(stdin[p].project_root, "") = ""
     THEN Emit(p, FALSE, "Missing required field: project_root", NoData, 1)
     ELSE IF ~Config(p).isObject
     THEN EmitUnexpected(p, NoGetOnNone)
     ELSE /\ pc' = [pc EXCEPT ![p] = "tag_list_1"]
          /\ UNCHANGED <<stdout, exitCode>>
  /\ UNCHANGED <<repoVars, callVars, hook, stdin, valVars, cmds, tagsBefore, prev>>

\* create_tag: success, _ = run_git_command(["tag", "-l", tag_name], ...)
TagList1(p) ==
  /\ pc[p] = "tag_list_1"
  /\ \E o \in GitOutcomes :
       /\ Issue(p, TagListArgs(p), o)
       /\ IF o.res = "raise" THEN EmitUnexpected(p, o.text)
          ELSE /\ pc' = [pc EXCEPT ![p] =
                           IF o.res = "ok" THEN "tag_list_2" ELSE "tag_create"]
               /\ UNCHANGED <<stdout, exitCode>>
  /\ UNCHANGED <<repoVars, callVars, hook, stdin, valVars, tagsBefore, prev>>

\* TagList2 without the return on an existing tag
TagList2_NoGuard(p) ==
  /\ pc[p] = "tag_list_2"
  /\ \E o \in GitOutcomes :
       /\ Issue(p, TagListArgs(p), o)
       /\ IF o.res = "raise" THEN EmitUnexpected(p, o.text)
          ELSE /\ pc' = [pc EXCEPT ![p] = "tag_create"]
               /\ UNCHANGED <<stdout, exitCode>>
  /\ UNCHANGED <<repoVars, callVars, hook, stdin, valVars, tagsBefore, prev>>

\* create_tag: the second listing and `if existing_tags_success and existing_tags`
TagList2(p) ==
  /\ pc[p] = "tag_list_2"
  /\ \E o \in GitOutcomes :
       /\ Issue(p, TagListArgs(p), o)
       /\ IF o.res = "raise" THEN EmitUnexpected(p, o.text)
          ELSE IF o.res = "ok" /\ TagName(p) \in tags
          THEN Emit(p, FALSE, "Tag " \o TagName(p) \o " already exists", NoData, 1)
          ELSE /\ pc' = [pc EXCEPT ![p] = "tag_create"]
               /\ UNCHANGED <<stdout, exitCode>>
  /\ UNCHANGED <<repoVars, callVars, hook, stdin, valVars, tagsBefore, prev>>

\* TagCreate going on to the push when the creation failed
TagCreate_PushAnyway(p) ==
  /\ pc[p] = "tag_create"
  /\ \E o \in GitOutcomes :
       /\ (o.res = "ok" => TagName(p) \notin tags)
       /\ Issue(p, TagArgs(p), o)
       /\ IF o.res = "ok"
          THEN /\ tags' = tags \cup {TagName(p)}
               /\ nearestTag' = <<TagName(p)>>
               /\ markerDepth' = 0
          ELSE UNCHANGED <<tags, nearestTag, markerDepth>>
       /\ IF o.res = "raise" THEN EmitUnexpected(p, o.text)
          ELSE IF Push(p)
          THEN /\ pc' = [pc EXCEPT ![p] = "tag_push"]
               /\ UNCHANGED <<stdout, exitCode>>
          ELSE IF o.res = "fail"
          THEN Emit(p, FALSE, "Failed to create tag: " \o o.text, NoData, 1)
          ELSE Emit(p, TRUE, "Created tag " \o TagName(p), NoData, 0)
  /\ UNCHANGED <<remoteTags, history, callVars, hook, stdin, valVars,
                 tagsBefore, prev>>

\* TagCreate passing -f: git moves a tag that exists
TagCreate_Force(p) ==
  /\ pc[p] = "tag_create"
  /\ \E o \in GitOutcomes :
       /\ Issue(p, TagArgs(p) \o <<"-f">>, o)
       /\ IF o.res = "ok"
          THEN /\ tags' = tags \cup {TagName(p)}
               /\ nearestTag' = <<TagName(p)>>
               /\ markerDepth' = 0
          ELSE UNCHANGED <<tags, nearestTag, markerDepth>>
       /\ IF o.res = "raise" THEN EmitUnexpected(p, o.text)
          ELSE IF o.res = "fail"
          THEN Emit(p, FALSE, "Failed to create tag: " \o o.text, NoData, 1)
          ELSE IF Push(p)
          THEN /\ pc' = [pc EXCEPT ![p] = "tag_push"]
               /\ UNCHANGED <<stdout, exitCode>>
          ELSE Emit(p, TRUE, "Created tag " \o TagName(p), NoData, 0)
  /\ UNCHANGED <<remoteTags, history, callVars, hook, stdin, valVars,
                 tagsBefore, prev>>

\* create_tag: run_git_command(tag_args, ...); git refuses a name that exists
TagCreate(p) ==
  /\ pc[p] = "tag_create"
  /\ \E o \in GitOutcomes :
       /\ (o.res = "ok" => TagName(p) \notin tags)
       /\ Issue(p, TagArgs(p), o)
       /\ IF o.res = "ok"
          THEN /\ tags' = tags \cup {TagName(p)}
               /\ nearestTag' = <<TagName(p)>>
               /\ markerDepth' = 0
          ELSE UNCHANGED <<tags, nearestTag, markerDepth>>
       /\ IF o.res = "raise" THEN EmitUnexpected(p, o.text)
          ELSE IF o.res = "fail"
          THEN Emit(p, FALSE, "Failed to create tag: " \o o.text, NoData, 1)
          ELSE IF Push(p)
          THEN /\ pc' = [pc EXCEPT ![p] = "tag_push"]
               /\ UNCHANGED <<stdout, exitCode>>
          ELSE Emit(p, TRUE, "Created tag " \o TagName(p), NoData, 0)
  /\ UNCHANGED <<remoteTags, history, callVars, hook, stdin, valVars,
                 tagsBefore, prev>>

\* TagPush deleting the local tag again when the push fails
TagPush_Rollback(p) ==
  /\ pc[p] = "tag_push"
  /\ \E o \in GitOutcomes :
       /\ Issue(p, PushArgs(p), o)
       /\ remoteTags' = IF o.res = "ok" THEN remoteTags \cup {TagName(p)} ELSE remoteTags
       /\ tags' = IF o.res = "fail" THEN tags \ {TagName(p)} ELSE tags
       /\ IF o.res = "raise" THEN EmitUnexpected(p, o.text)
          ELSE IF o.res = "fail"
          THEN Emit(p, FALSE, "Tag created but failed to push: " \o o.text, NoData, 1)
          ELSE Emit(p, TRUE, "Created and pushed tag " \o TagName(p), NoData, 0)
  /\ UNCHANGED <<history, nearestTag, markerDepth, callVars, hook, stdin,
                 valVars, tagsBefore, prev>>

\* TagPush not looking at the outcome of the push
TagPush_IgnoreFailure(p) ==
  /\ pc[p] = "tag_push"
  /\ \E o \in GitOutcomes :
       /\ Issue(p, PushArgs(p), o)
       /\ remoteTags' = IF o.res = "ok" THEN remoteTags \cup {TagName(p)} ELSE remoteTags
       /\ IF o.res = "raise" THEN EmitUnexpected(p, o.text)
          ELSE Emit(p, TRUE, "Created and pushed tag " \o TagName(p), NoData, 0)
  /\ UNCHANGED <<tags, history, nearestTag, markerDepth, callVars, hook, stdin,
                 valVars, tagsBefore, prev>>

\* create_tag: run_git_command(["push", "origin", tag_name], ...)
TagPush(p) ==
  /\ pc[p] = "tag_push"
  /\ \E o \in GitOutcomes :
       /\ Issue(p, PushArgs(p), o)
       /\ remoteTags' = IF o.res = "ok" THEN remoteTags \cup {TagName(p)} ELSE remoteTags
       /\ IF o.res = "raise" THEN EmitUnexpected(p, o.text)
          ELSE IF o.res = "fail"
          THEN Emit(p, FALSE, "Tag created but failed to push: " \o o.text, NoData, 1)
          ELSE Emit(p, TRUE, "Created and pushed tag " \o TagName(p), NoData, 0)
  /\ UNCHANGED <<tags, history, nearestTag, markerDepth, callVars, hook, stdin,
                 valVars, tagsBefore, prev>>

----------------------------------------------------------------------------
(* commit-validator *)

AllowedTypes(config) == Get(config.allowed_types, DefaultAllowedTypes)
RequireScope(config) == Get(config.require_scope, FALSE)

\* the loop of validate_commits putting each invalid commit first in its list
RECURSIVE InvalidCommits_Reversed(_, _, _)
InvalidCommits_Reversed(list, allowed, scope) ==
  IF list = <<>> THEN <<>>
  ELSE LET r == validate_conventional_commit(Head(list), allowed, scope)
       IN  InvalidCommits_Reversed(Tail(list), allowed, scope)
             \o (IF r[1] THEN <<>> ELSE <<[message |-> Head(list), error |-> r[2]]>>)

\* the loop of validate_commits over the commit list
RECURSIVE InvalidCommits(_, _, _)
InvalidCommits(list, allowed, scope) ==
  IF list = <<>> THEN <<>>
  ELSE LET r == validate_conventional_commit(Head(list), allowed, scope)
       IN  (IF r[1] THEN <<>> ELSE <<[message |-> Head(list), error |-> r[2]]>>)
             \o InvalidCommits(Tail(list), allowed, scope)

\* validate_commits leaving its loop after the first commit
validate_commits_first_only(list, config) ==
  InvalidCommits(SubSeq(list, 1, 1), AllowedTypes(config), RequireScope(config))

validate_commits(list, config) ==
  InvalidCommits(list, AllowedTypes(config), RequireScope(config))

\* item['message'][:60]
PreviewLen == 60
Preview(s) == SubSeq(s, 1, IF Len(s) < PreviewLen THEN Len(s) ELSE PreviewLen)

\* the message of the response that lists the invalid commits
InvalidMessage(invalid) ==
  "Found " \o ToString(Len(invalid)) \o " invalid commit(s):\n"
    \o JoinStr([i \in 1..Len(invalid) |->
                  "  - " \o Str(Preview(invalid[i].message)) \o "... -> "
                    \o invalid[i].error], "\n")

\* [c.strip() for c in commits.split("\n") if c.strip()]
RECURSIVE NonEmptyStripped(_)
NonEmptyStripped(lines) ==
  IF lines = <<>> THEN <<>>
  ELSE (IF Strip(Head(lines)) = <<>> THEN <<>> ELSE <<Strip(Head(lines))>>)
         \o NonEmptyStripped(Tail(lines))
CommitList(output) == NonEmptyStripped(SplitLines(output))

\* what `git log --pretty=format:%s` prints for the range, trimmed by
\* run_git_command
LogOutput(p) ==
  Strip(JoinLines(IF last_tag[p] # <<>> THEN SubSeq(history, 1, markerDepth)
                  ELSE history))

DescribeArgs == <<"describe", "--tags", "--abbrev=0">>
LogArgs(p) ==
  IF last_tag[p] # <<>>
  THEN <<"log", last_tag[p][1] \o "..HEAD", "--pretty=format:%s">>
  ELSE <<"log", "--pretty=format:%s">>

\* main, up to the call of get_commits_since_last_tag
ValidatorMain(p) ==
  /\ pc[p] = "main" /\ hook[p] = "validator"
  /\ IF stdin[p].parse = "invalid"
     THEN Emit(p, FALSE, "Invalid JSON input: " \o stdin[p].error, NoData, 1)
     ELSE IF stdin[p].parse = "nonobject"
     THEN EmitUnexpected(p, NoGetOnList)
     ELSE IF Get(stdin[p].project_root, "") = ""
     THEN Emit(p, FALSE, "Missing required field: project_root", NoData, 1)
     ELSE /\ pc' = [pc EXCEPT ![p] = "describe"]
          /\ UNCHANGED <<stdout, exitCode>>
  /\ UNCHANGED <<repoVars, callVars, hook, stdin, valVars, cmds, tagsBefore, prev>>

\* Describe that does not keep the tag it found
Describe_NoMarker(p) ==
  /\ pc[p] = "describe"
  /\ \E o \in GitOutcomes :
       /\ (o.res = "ok" => nearestTag # <<>>)
       /\ Issue(p, DescribeArgs, o)
       /\ IF o.res = "raise"
          THEN EmitUnexpected(p, o.text) /\ UNCHANGED last_tag
          ELSE /\ last_tag' = [last_tag EXCEPT ![p] = <<>>]
               /\ pc' = [pc EXCEPT ![p] = "log"]
               /\ UNCHANGED <<stdout, exitCode>>
  /\ UNCHANGED <<repoVars, callVars, hook, stdin, commits, checked, tagsBefore, prev>>

\* get_commits_since_last_tag: git describe --tags --abbrev=0, which fails
\* when no tag is reachable from HEAD
Describe(p) ==
  /\ pc[p] = "describe"
  /\ \E o \in GitOutcomes :
       /\ (o.res = "ok" => nearestTag # <<>>)
       /\ Issue(p, DescribeArgs, o)
       /\ IF o.res = "raise"
          THEN EmitUnexpected(p, o.text) /\ UNCHANGED last_tag
          ELSE /\ last_tag' = [last_tag EXCEPT ![p] =
                                 IF o.res = "ok" THEN nearestTag ELSE <<>>]
               /\ pc' = [pc EXCEPT ![p] = "log"]
               /\ UNCHANGED <<stdout, exitCode>>
  /\ UNCHANGED <<repoVars, callVars, hook, stdin, commits, checked, tagsBefore, prev>>

\* Validate without the case of the empty commit list
Validate_NoEmptyCase(p, list) ==
  IF ~Config(p).isObject
  THEN EmitUnexpected(p, NoGetOnNone) /\ UNCHANGED checked
  ELSE \E invalid \in {validate_commits(list, Config(p))} :
         /\ checked' = [checked EXCEPT ![p] = Len(list)]
         /\ IF invalid # <<>>
            THEN \E text \in {InvalidMessage(invalid)} :
                   Emit(p, FALSE, text,
                        [commits_checked |-> <<Len(list)>>,
                         invalid_count |-> <<Len(invalid)>>,
                         invalid_commits |-> <<invalid>>], 1)
            ELSE \E text \in {"All " \o ToString(Len(list))
                                \o " commit(s) follow conventional commit format"} :
                   Emit(p, TRUE, text,
                        [NoData EXCEPT !.commits_checked = <<Len(list)>>,
                                       !.invalid_count = <<0>>], 0)

\* main after the commits were retrieved: validation and the response
Validate(p, list) ==
  IF list = <<>>
  THEN /\ Emit(p, TRUE, "No commits to validate",
               [NoData EXCEPT !.commits_checked = <<0>>], 0)
       /\ UNCHANGED checked
  ELSE IF ~Config(p).isObject
  THEN EmitUnexpected(p, NoGetOnNone) /\ UNCHANGED checked
  ELSE \E invalid \in {validate_commits(list, Config(p))} :
         /\ checked' = [checked EXCEPT ![p] = Len(list)]
         /\ IF invalid # <<>>
            THEN \E text \in {InvalidMessage(invalid)} :
                   Emit(p, FALSE, text,
                        [commits_checked |-> <<Len(list)>>,
                         invalid_count |-> <<Len(invalid)>>,
                         invalid_commits |-> <<invalid>>], 1)
            ELSE \E text \in {"All " \o ToString(Len(list))
                                \o " commit(s) follow conventional commit format"} :
                   Emit(p, TRUE, text,
                        [NoData EXCEPT !.commits_checked = <<Len(list)>>,
                                       !.invalid_count = <<0>>], 0)

\* Log taking a failed listing for an empty one
Log_IgnoreFailure(p) ==
  /\ pc[p] = "log"
  /\ \/ \E o \in {g \in GitOutcomes : g.res # "ok"} :
          /\ Issue(p, LogArgs(p), o)
          /\ IF o.res = "raise"
             THEN EmitUnexpected(p, o.text) /\ UNCHANGED <<commits, checked>>
             ELSE /\ commits' = [commits EXCEPT ![p] = <<>>]
                  /\ Validate(p, <<>>)
     \/ \E o \in {g \in GitOutcomes : g.res = "ok"} :
          /\ Issue(p, LogArgs(p), o)
          /\ \E list \in {CommitList(LogOutput(p))} :
               /\ commits' = [commits EXCEPT ![p] = list]
               /\ Validate(p, list)
  /\ UNCHANGED <<repoVars, callVars, hook, stdin, last_tag, tagsBefore, prev>>

\* Log listing all the commits when the listing of the range failed
Log_Fallback(p) ==
  /\ pc[p] = "log"
  /\ \/ \E o \in {g \in GitOutcomes : g.res # "ok"} :
          /\ Issue(p, LogArgs(p), o)
          /\ IF o.res = "raise"
             THEN EmitUnexpected(p, o.text) /\ UNCHANGED last_tag
             ELSE IF last_tag[p] # <<>>
             THEN /\ last_tag' = [last_tag EXCEPT ![p] = <<>>]
                  /\ UNCHANGED <<pc, stdout, exitCode>>
             ELSE /\ Emit(p, FALSE,
                          "Failed to retrieve git commits. Ensure you are in a git repository.",
                          NoData, 1)
                  /\ UNCHANGED last_tag
          /\ UNCHANGED <<commits, checked>>
     \/ \E o \in {g \in GitOutcomes : g.res = "ok"} :
          /\ Issue(p, LogArgs(p), o)
          /\ \E list \in {CommitList(LogOutput(p))} :
               /\ commits' = [commits EXCEPT ![p] = list]
               /\ Validate(p, list)
          /\ UNCHANGED last_tag
  /\ UNCHANGED <<repoVars, callVars, hook, stdin, tagsBefore, prev>>

\* get_commits_since_last_tag: git log, and the rest of main
Log(p) ==
  /\ pc[p] = "log"
  /\ \/ \E o \in {g \in GitOutcomes : g.res # "ok"} :
          /\ Issue(p, LogArgs(p), o)
          /\ IF o.res = "raise"
             THEN EmitUnexpected(p, o.text)
             ELSE Emit(p, FALSE,
                       "Failed to retrieve git commits. Ensure you are in a git repository.",
                       NoData, 1)
          /\ UNCHANGED <<commits, checked>>
     \/ \E o \in {g \in GitOutcomes : g.res = "ok"} :
          /\ Issue(p, LogArgs(p), o)
          /\ \E list \in {CommitList(LogOutput(p))} :
               /\ commits' = [commits EXCEPT ![p] = list]
               /\ Validate(p, list)
  /\ UNCHANGED <<repoVars, callVars, hook, stdin, last_tag, tagsBefore, prev>>

----------------------------------------------------------------------------
(* The hooks run one invocation at a time against one repository *)

InitialTags == {{}, {"v1.0"}}

InitRepo ==
  /\ tags \in InitialTags
  /\ remoteTags = {}
  /\ history \in SeqsUpTo(Subjects, MaxHist)
  /\ nearestTag \in {<<>>} \cup {<<t>> : t \in tags}
  /\ markerDepth \in IF nearestTag = <<>> THEN {0} ELSE 0..Len(history)

InitProcs ==
  /\ pc = [p \in Procs |-> "idle"]
  /\ hook = [p \in Procs |-> "tagger"]
  /\ stdin = [p \in Procs |-> NonObjectDoc]
  /\ last_tag = [p \in Procs |-> <<>>]
  /\ commits = [p \in Procs |-> <<>>]
  /\ checked = [p \in Procs |-> 0]
  /\ cmds = [p \in Procs |-> <<>>]
  /\ stdout = [p \in Procs |-> <<>>]
  /\ exitCode = [p \in Procs |-> <<>>]
  /\ tagsBefore = [p \in Procs |-> {}]
  /\ prev = <<>>

NoCall ==
  /\ message = <<>>
  /\ allowed_types = <<>>
  /\ require_scope = FALSE
  /\ result = <<>>

Init == InitRepo /\ InitProcs /\ NoCall

Next ==
  \/ StartTagger(1)
  \/ StartValidator(1)
  \/ TaggerMain(1)
  \/ TagList1(1)
  \/ TagList2(1)
  \/ TagCreate(1)
  \/ TagPush(1)
  \/ ValidatorMain(1)
  \/ Describe(1)
  \/ Log(1)

Spec == Init /\ [][Next]_vars

\* the steps of a started invocation
Run(p) ==
  \/ TaggerMain(p)
  \/ TagList1(p)
  \/ TagList2(p)
  \/ TagCreate(p)
  \/ TagPush(p)
  \/ ValidatorMain(p)
  \/ Describe(p)
  \/ Log(p)

\* one invocation, from its start by the host to its exit
First(p) == pc[p] = "idle" /\ (StartTagger(p) \/ StartValidator(p))

LiveNext == First(1) \/ Run(1)

\* a started process keeps running and every git command returns
LiveSpec == Init /\ [][LiveNext]_vars /\ WF_vars(Run(1))

----------------------------------------------------------------------------
(* Successive invocations of the tagger, the previous one remembered *)

TaggerInit ==
  /\ tags \in SUBSET {"v1.0", "v1.1"}
  /\ remoteTags = {}
  /\ history = <<>>
  /\ nearestTag \in {<<>>} \cup {<<t>> : t \in tags}
  /\ markerDepth = 0
  /\ InitProcs
  /\ NoCall

TaggerNext ==
  \/ InvokeTagger(1)
  \/ TaggerMain(1)
  \/ TagList1(1)
  \/ TagList2(1)
  \/ TagCreate(1)
  \/ TagPush(1)

TaggerSpec == TaggerInit /\ [][TaggerNext]_vars

----------------------------------------------------------------------------
(* Two invocations of the tagger for one tag name, started by the host side *)
(* by side on one repository; their steps interleave                        *)

\* requests for the tag v1.0, with and without the push
ConcDocs ==
  {ObjectDoc(<<"1.0">>, <<ProjectRoot>>, c) :
     c \in {<<>>, <<[EmptyConfig EXCEPT !.push = <<TRUE>>]>>}}

ConcInit ==
  /\ tags \in InitialTags
  /\ remoteTags = {}
  /\ history = <<>>
  /\ nearestTag \in {<<>>} \cup {<<t>> : t \in tags}
  /\ markerDepth = 0
  /\ InitProcs
  /\ NoCall

\* the host starts the process p
Launch(p) ==
  /\ pc[p] = "idle"
  /\ \E doc \in ConcDocs : Start(p, "tagger", doc)
  /\ UNCHANGED prev

ConcNext ==
  \E p \in Procs :
    \/ Launch(p)
    \/ TaggerMain(p)
    \/ TagList1(p)
    \/ TagList2(p)
    \/ TagCreate(p)
    \/ TagPush(p)

ConcSpec == ConcInit /\ [][ConcNext]_vars

----------------------------------------------------------------------------
(* validate_conventional_commit called directly on a message *)

MessageAlphabet == {"a", "B", ":", " ", "(", "\n"}

TypeParts == { <<>>, <<"a">>, <<"a","b">>, <<"A","B">>, <<"a","1">> }
ScopeParts ==
  { <<>>, <<"(","b",")">>, <<"(",")">>, <<"(","B","-","1",")">>, <<"(","b">>,
    <<"(","b"," ","c",")">> }
SeparatorParts ==
  { <<":">>, <<":"," ">>, <<":","\t">>, <<>>, <<" ",":"," ">>, <<":","\n">> }
DescriptionParts ==
  { <<>>, <<"x">>, <<"x","\n","y">>, <<"\n">>, <<"x","\n">>, <<" ">>,
    <<"x",":","y">> }

Messages ==
  SeqsUpTo(MessageAlphabet, MaxMsgLen)
    \cup {t \o s \o c \o d : t \in TypeParts, s \in ScopeParts,
                            c \in SeparatorParts, d \in DescriptionParts}

AllowedLists ==
  { <<>>, << <<"a">> >>, << <<"a","b">> >>, << <<"a">>, <<"a","b">> >>,
    << <<"A","B">> >>, << <<"b">> >> }

ValidateInit ==
  /\ message \in Messages
  /\ allowed_types \in AllowedLists
  /\ require_scope \in BOOLEAN
  /\ result = <<>>
  /\ tags = {} /\ remoteTags = {} /\ history = <<>>
  /\ nearestTag = <<>> /\ markerDepth = 0
  /\ InitProcs

\* is_valid, error = validate_conventional_commit(message, allowed_types, require_scope)
Call ==
  /\ result = <<>>
  /\ result' = <<validate_conventional_commit(message, allowed_types, require_scope)>>
  /\ UNCHANGED <<repoVars, procVars, message, allowed_types, require_scope>>

ValidateNext == Call

ValidateSpec == ValidateInit /\ [][ValidateNext]_vars

----------------------------------------------------------------------------
(* Properties *)

Exited(p) == pc[p] = "exited"
IsTagger(p) == hook[p] = "tagger"
IsValidator(p) == hook[p] = "validator"

\* the commands of a list that are tag listings, tag creations, pushes
IsListing(c) == Len(c.args) = 3 /\ c.args[1] = "tag" /\ c.args[2] = "-l"
IsCreation(c) == c.args[1] = "tag" /\ ~IsListing(c)
IsPush(c) == c.args[1] = "push"
AllOk(list) == \A i \in 1..Len(list) : list[i].res = "ok"
ListingsOk(list) == \A i \in 1..Len(list) : IsListing(list[i]) => list[i].res = "ok"

\* the finished invocation repeats the request of the previous one, which found
\* the tag absent and whose commands all succeeded; its own listings succeed
C1_Case ==
  /\ Exited(1) /\ prev # <<>>
  /\ stdin[1] = prev[1].stdin
  /\ stdin[1].version # <<>>
  /\ ~Push(1)
  /\ TagName(1) \notin prev[1].tagsBefore
  /\ prev[1].cmds # <<>> /\ AllOk(prev[1].cmds)
  /\ cmds[1] # <<>> /\ ListingsOk(cmds[1])

\* C1: of two successive create_tag runs with the same version and config (push
\* unset) on a repository without the tag, where tag listing and creation
\* succeed, the first answers success and the second answers failure "Tag <name>
\* already exists", issues no tag creation and no push, and leaves the tags as
\* they were.
C1_Idempotent ==
  C1_Case =>
    /\ prev[1].stdout = <<Response(TRUE, "Created tag " \o TagName(1), NoData)>>
    /\ stdout[1] = <<Response(FALSE, "Tag " \o TagName(1) \o " already exists", NoData)>>
    /\ \A i \in 1..Len(cmds[1]) : IsListing(cmds[1][i])
    /\ tags = tagsBefore[1]

C1_Witness ==
  /\ C1_Case
  /\ stdout[1] = <<Response(FALSE, "Tag v1.1 already exists", NoData)>>
  /\ tags = {"v1.0", "v1.1"}

\* a finished tagger invocation with push set whose tag creation succeeded and
\* whose push exited with an error
C2_Case ==
  /\ Exited(1) /\ IsTagger(1)
  /\ Len(cmds[1]) >= 2
  /\ IsCreation(cmds[1][Len(cmds[1]) - 1]) /\ cmds[1][Len(cmds[1]) - 1].res = "ok"
  /\ IsPush(cmds[1][Len(cmds[1])]) /\ cmds[1][Len(cmds[1])].res = "fail"

\* C2: when tag creation succeeds and the push fails, the result is failure with
\* message "Tag created but failed to push: <push error text>" and the tag
\* exists in the local repository when the invocation ends.
C2_PartialFailure ==
  C2_Case =>
    /\ stdout[1] = <<Response(FALSE,
                              "Tag created but failed to push: "
                                \o cmds[1][Len(cmds[1])].text, NoData)>>
    /\ TagName(1) \in tags

C2_Witness ==
  /\ C2_Case
  /\ Push(1)
  /\ TagName(1) = "release-1.0"
  /\ "release-1.0" \in tags /\ "release-1.0" \notin tagsBefore[1]
  /\ stdout[1][1].message = "Tag created but failed to push: fatal: error"

\* the fields a request object must carry for the hook, in the order main
\* looks at them, that are absent or empty
Required(p) == IF IsTagger(p) THEN <<"version", "project_root">> ELSE <<"project_root">>
FieldOf(p, f) == IF f = "version" THEN stdin[p].version ELSE stdin[p].project_root
MissingFields(p) ==
  {Required(p)[i] : i \in {j \in 1..Len(Required(p)) :
                             Get(FieldOf(p, Required(p)[j]), "") = ""}}

\* C3: every invocation of main ends, having printed exactly one response, on
\* every path; while it runs nothing has been printed and never are there two.
C3_OneResponse ==
  /\ [](\A p \in Procs : Len(stdout[p]) <= 1)
  /\ [](Exited(1) => Len(stdout[1]) = 1 /\ exitCode[1] # <<>>)
  /\ [](pc[1] \notin {"idle", "exited"} => stdout[1] = <<>> /\ exitCode[1] = <<>>)
  /\ (pc[1] = "main") ~> Exited(1)

\* an exception raised inside the workflow was reported
C3_Witness ==
  /\ Exited(1) /\ IsValidator(1)
  /\ Len(cmds[1]) = 2
  /\ stdout[1] = <<Response(FALSE, "Unexpected error: " \o NoGetOnNone, NoData)>>

\* C4: the exit code of a terminated invocation is 0 iff the response has
\* success=true and 1 iff it has success=false; there is no other exit code.
C4_ExitCode ==
  \A p \in Procs :
    /\ exitCode[p] \in {<<>>, <<0>>, <<1>>}
    /\ (Exited(p) <=> exitCode[p] # <<>>)
    /\ Exited(p) =>
         /\ stdout[p] # <<>>
         /\ (exitCode[p] = <<0>> <=> stdout[p][Len(stdout[p])].success)
         /\ (exitCode[p] = <<1>> <=> ~stdout[p][Len(stdout[p])].success)

C4_Witness ==
  /\ Exited(1) /\ IsValidator(1)
  /\ exitCode[1] = <<0>>
  /\ checked[1] = 2
  /\ stdout[1][1].success

\* a well-formed request to the validator whose history was retrieved
WellFormed(p) ==
  /\ stdin[p].parse = "object"
  /\ MissingFields(p) = {}
  /\ Config(p).isObject
Retrieved(p) ==
  /\ Exited(p) /\ IsValidator(p)
  /\ cmds[p] # <<>>
  /\ cmds[p][Len(cmds[p])].args[1] = "log"
  /\ cmds[p][Len(cmds[p])].res = "ok"

\* C5: for a well-formed request whose history is retrieved, the validator
\* answers success iff every retrieved subject is valid under
\* validate_conventional_commit with the configured allowed_types and
\* require_scope (the empty history included).
C5_Aggregate ==
  (Retrieved(1) /\ WellFormed(1)) =>
    (stdout[1][1].success <=>
       \A i \in 1..Len(commits[1]) :
         validate_conventional_commit(commits[1][i], AllowedTypes(Config(1)),
                                      RequireScope(Config(1)))[1])

\* a valid commit followed by an invalid one
C5_Witness ==
  /\ Retrieved(1) /\ WellFormed(1)
  /\ Len(commits[1]) = 2
  /\ validate_conventional_commit(commits[1][1], AllowedTypes(Config(1)),
                                  RequireScope(Config(1)))[1]
  /\ ~validate_conventional_commit(commits[1][2], AllowedTypes(Config(1)),
                                   RequireScope(Config(1)))[1]
  /\ ~stdout[1][1].success

\* C6: a request that lacks a required field is answered with failure, data {},
\* message "Missing required field: <f>" for a missing f, exit code 1, and no
\* git command; so is input that is not JSON, with a message that begins
\* "Invalid JSON input:".
C6_ProtocolErrors ==
  /\ (Exited(1) /\ stdin[1].parse = "object" /\ MissingFields(1) # {}) =>
       /\ \E f \in MissingFields(1) :
            stdout[1] = <<Response(FALSE, "Missing required field: " \o f, NoData)>>
       /\ exitCode[1] = <<1>>
       /\ cmds[1] = <<>>
  /\ (Exited(1) /\ stdin[1].parse = "invalid") =>
       /\ \E e \in JsonErrorTexts :
            stdout[1] = <<Response(FALSE, "Invalid JSON input: " \o e, NoData)>>
       /\ exitCode[1] = <<1>>
       /\ cmds[1] = <<>>
  /\ (stdin[1].parse = "invalid" \/ (stdin[1].parse = "object" /\ MissingFields(1) # {}))
       => (pc[1] # "idle" => cmds[1] = <<>> /\ pc[1] \in {"main", "exited"})

C6_Witness ==
  /\ Exited(1) /\ IsTagger(1)
  /\ stdin[1].parse = "object"
  /\ stdin[1].version = <<"1.0">>
  /\ MissingFields(1) = {"project_root"}
  /\ stdout[1][1].message = "Missing required field: project_root"

\* the invalid_commits of the response, empty when the response has none
InvalidListed(p) == Get(stdout[p][1].data.invalid_commits, <<>>)
FormatErrors == {FormatErrorScope, FormatErrorAny}

\* no commit is reported with a type error, and no commit of the right shape
\* is reported at all
NoTypeErrors(p) ==
  /\ \A i \in 1..Len(InvalidListed(p)) : InvalidListed(p)[i].error \in FormatErrors
  /\ \A j \in 1..Len(commits[p]) :
       PatternMatches(Lower(commits[p][j]), RequireScope(Config(p))) =>
         \A i \in 1..Len(InvalidListed(p)) : InvalidListed(p)[i].message # commits[p][j]

\* every commit of the right shape whose type is outside the default list is
\* reported with the type error that names the default list
DefaultTypesApplied(p) ==
  \A j \in 1..Len(commits[p]) :
    (/\ PatternMatches(Lower(commits[p][j]), RequireScope(Config(p)))
     /\ NotInList(Group1(Lower(commits[p][j])), DefaultAllowedTypes)) =>
      \E i \in 1..Len(InvalidListed(p)) :
        InvalidListed(p)[i] =
          [message |-> commits[p][j],
           error |-> TypeError(Group1(Lower(commits[p][j])), DefaultAllowedTypes)]

\* C7 as stated: with allowed_types empty or absent, every message of the right
\* shape is valid and validate_commits produces no type error.
C7_EmptyOrAbsent ==
  (Retrieved(1) /\ WellFormed(1)
     /\ Config(1).allowed_types \in {<<>>, << <<>> >>}) => NoTypeErrors(1)

\* C7, amended: with allowed_types present and empty, every message of the
\* right shape is valid and validate_commits produces no type error; with
\* allowed_types absent the default list applies, and a message of the right
\* shape whose type is outside it gets the type error.
C7_EmptyAllowed ==
  (Retrieved(1) /\ WellFormed(1)) =>
    /\ (Config(1).allowed_types = << <<>> >> => NoTypeErrors(1))
    /\ (Config(1).allowed_types = <<>> => DefaultTypesApplied(1))

C7_Witness ==
  /\ Retrieved(1) /\ WellFormed(1)
  /\ Config(1).allowed_types = << <<>> >>
  /\ checked[1] = 2
  /\ commits[1][2] = <<"w","i","p",":"," ","z">>
  /\ stdout[1][1].success

(* validate_conventional_commit called directly *)

Returned == result # <<>>
Shape == PatternMatches(Lower(message), require_scope)
FormatError == IF require_scope THEN FormatErrorScope ELSE FormatErrorAny

\* C8: a type error is returned only for a message that matched the shape; a
\* message that fails the shape check gets exactly the format error of the
\* current require_scope; an invalid result carries one non-empty error, a
\* valid one the empty string.
C8_ShapeFirst ==
  Returned =>
    /\ (result[1][2] \notin (FormatErrors \cup {""}) => Shape)
    /\ (~Shape => result[1] = <<FALSE, FormatError>>)
    /\ (result[1][1] <=> result[1][2] = "")
    /\ (Shape /\ ~result[1][1] =>
          result[1][2] = TypeError(Group1(Lower(message)), allowed_types))

\* a message whose type can be read and is not allowed, but whose shape is wrong
C8_Witness ==
  /\ Returned /\ ~Shape
  /\ message = <<"a","b",":","x">>
  /\ allowed_types = << <<"a">> >>
  /\ ~require_scope
  /\ result[1] = <<FALSE, FormatErrorAny>>

\* message is <lowercase letters> ":" " " <description>, the description not empty
PlainForm(m) ==
  \E k \in 1..Len(m) :
    /\ \A i \in 1..k : IsLower(m[i])
    /\ Len(m) >= k + 3
    /\ m[k + 1] = ":" /\ m[k + 2] = " "
\* its type token: what stands before the first colon
PlainType(m) ==
  SubSeq(m, 1, (CHOOSE k \in 1..Len(m) : m[k] = ":" /\ \A i \in 1..(k - 1) : m[i] # ":") - 1)
TypeAllowed(m) == \E i \in 1..Len(allowed_types) : allowed_types[i] = PlainType(m)

\* C9 as stated: every message <lowercase letters>: <one or more characters>
\* with an allowed type is valid when no scope is required.
C9_PlainValid ==
  (Returned /\ ~require_scope /\ PlainForm(message) /\ TypeAllowed(message)) =>
    result[1] = <<TRUE, "">>

\* C9, amended: every message <lowercase letters>: <one or more characters
\* other than a line feed> with an allowed type is valid when no scope is
\* required.
C9_PlainValidOneLine ==
  (/\ Returned /\ ~require_scope /\ PlainForm(message) /\ TypeAllowed(message)
   /\ \A i \in 1..Len(message) : message[i] # "\n") =>
    result[1] = <<TRUE, "">>

\* the description is a single blank
C9_Witness ==
  /\ Returned /\ ~require_scope /\ PlainForm(message) /\ TypeAllowed(message)
  /\ message = <<"a",":"," "," ">>
  /\ allowed_types = << <<"a">>, <<"a","b">> >>
  /\ result[1] = <<TRUE, "">>

\* letters of either case
IsLetter(c) == IsLower(LowerChar(c))
\* the type token: the letters the message begins with
TokenLen(m) ==
  CHOOSE k \in 0..Len(m) :
    /\ \A i \in 1..k : IsLetter(m[i])
    /\ (k < Len(m) => ~IsLetter(m[k + 1]))
\* a parenthesised scope stands between the type token and a colon
HasScope(m) ==
  /\ TokenLen(m) + 1 <= Len(m)
  /\ m[TokenLen(m) + 1] = "("
  /\ \E j \in (TokenLen(m) + 2)..(Len(m) - 1) : m[j] = ")" /\ m[j + 1] = ":"

\* C10: with require_scope, every message without a parenthesised scope between
\* its type token and the colon is invalid with the error "must match format
\* 'type(scope): description'", whatever the type and the allowed types.
C10_ScopeRequired ==
  (Returned /\ require_scope /\ ~HasScope(message)) =>
    result[1] = <<FALSE, "must match format 'type(scope): description'">>

\* a message with an allowed type and no scope
C10_Witness ==
  /\ Returned /\ require_scope /\ ~HasScope(message)
  /\ message = <<"a",":"," ","x">>
  /\ allowed_types = << <<"a">> >>
  /\ result[1] = <<FALSE, FormatErrorScope>>

(* The validator's response after the history was retrieved *)

\* validate_conventional_commit under the configuration of the request
ValidUnder(p, m) ==
  validate_conventional_commit(m, AllowedTypes(Config(p)), RequireScope(Config(p)))[1]
AllValid(p) == \A i \in 1..Len(commits[p]) : ValidUnder(p, commits[p][i])

\* C11: when the history is retrieved and holds no commit subject, the
\* validator answers success, exit code 0, data exactly {commits_checked: 0}
\* (no invalid_count) and validates no commit; when it holds n >= 1 subjects
\* that are all valid, it answers success with data {commits_checked: n,
\* invalid_count: 0}; the two data objects differ.
C11_EmptyHistory ==
  Retrieved(1) =>
    /\ commits[1] = <<>> =>
         /\ stdout[1] = <<Response(TRUE, "No commits to validate",
                                   [commits_checked |-> <<0>>, invalid_count |-> <<>>,
                                    invalid_commits |-> <<>>])>>
         /\ exitCode[1] = <<0>>
         /\ checked[1] = 0
    /\ (commits[1] # <<>> /\ WellFormed(1) /\ AllValid(1)) =>
         /\ stdout[1][1].success
         /\ stdout[1][1].data =
              [commits_checked |-> <<Len(commits[1])>>, invalid_count |-> <<0>>,
               invalid_commits |-> <<>>]
         /\ exitCode[1] = <<0>>
         /\ checked[1] = Len(commits[1])

\* the repository has commits, none of them after the tag describe finds
C11_Witness ==
  /\ Retrieved(1)
  /\ Len(history) = 2 /\ markerDepth = 0 /\ last_tag[1] = <<"v1.0">>
  /\ commits[1] = <<>>
  /\ stdout[1][1].data.commits_checked = <<0>>
  /\ stdout[1][1].data.invalid_count = <<>>

(* The tagger's result *)

\* create_tag was entered and has returned
Returned_create_tag(p) ==
  /\ Exited(p) /\ IsTagger(p) /\ cmds[p] # <<>>
  /\ \A i \in 1..Len(cmds[p]) : cmds[p][i].res # "raise"

\* the existence check found the tag: the listing succeeded twice and the tag
\* was there
FoundByCheck(p) ==
  /\ Len(cmds[p]) >= 2
  /\ IsListing(cmds[p][1]) /\ cmds[p][1].res = "ok"
  /\ IsListing(cmds[p][2]) /\ cmds[p][2].res = "ok"
  /\ TagName(p) \in tagsBefore[p]

CreationOk(p) == \E i \in 1..Len(cmds[p]) : IsCreation(cmds[p][i]) /\ cmds[p][i].res = "ok"
PushOk(p) == \E i \in 1..Len(cmds[p]) : IsPush(cmds[p][i]) /\ cmds[p][i].res = "ok"

\* C12: create_tag returns success iff the existence check did not find the tag
\* prefix+version, the tag creation succeeded and, with push set, the push
\* succeeded; the message is then "Created and pushed tag <prefix+version>"
\* with push set and "Created tag <prefix+version>" without, the prefix being
\* "v" when the configuration gives none.
C12_FullSuccess ==
  Returned_create_tag(1) =>
    /\ stdout[1][1].success <=>
         (~FoundByCheck(1) /\ CreationOk(1) /\ (Push(1) => PushOk(1)))
    /\ stdout[1][1].success =>
         stdout[1][1].message =
           (IF Push(1) THEN "Created and pushed tag " ELSE "Created tag ")
             \o Get(Config(1).prefix, "v") \o stdin[1].version[1]

C12_Witness ==
  /\ Returned_create_tag(1)
  /\ Config(1).prefix = <<>> /\ Push(1)
  /\ PushOk(1)
  /\ stdout[1] = <<Response(TRUE, "Created and pushed tag v1.0", NoData)>>

\* C13: every response with success=false, of either hook and on every failure
\* path, has a message that is not empty.
C13_FailureMessage ==
  \A p \in Procs :
    \A i \in 1..Len(stdout[p]) :
      ~stdout[p][i].success => stdout[p][i].message # ""

\* the tag creation failed and git wrote nothing on its standard error
C13_Witness ==
  /\ Exited(1) /\ IsTagger(1)
  /\ cmds[1] # <<>>
  /\ IsCreation(cmds[1][Len(cmds[1])])
  /\ cmds[1][Len(cmds[1])].res = "fail" /\ cmds[1][Len(cmds[1])].text = ""
  /\ stdout[1] = <<Response(FALSE, "Failed to create tag: ", NoData)>>

(* The validator when the commit listing fails *)

\* the last git command of the finished validator is the listing, and it
\* exited with an error
LogFailed(p) ==
  /\ Exited(p) /\ IsValidator(p)
  /\ cmds[p] # <<>>
  /\ cmds[p][Len(cmds[p])].args[1] = "log"
  /\ cmds[p][Len(cmds[p])].res = "fail"

\* C14 as stated: when the log command fails the validator answers failure,
\* exit code 1, message "Failed to retrieve commit history.", and validates no
\* commit.
C14_HistoryMessage ==
  LogFailed(1) =>
    /\ stdout[1] = <<Response(FALSE, "Failed to retrieve commit history.", NoData)>>
    /\ exitCode[1] = <<1>>
    /\ checked[1] = 0

\* C14, amended: when the log command fails the validator answers failure,
\* exit code 1, message "Failed to retrieve git commits. Ensure you are in a
\* git repository.", and validates no commit.
C14_LogFailure ==
  LogFailed(1) =>
    /\ stdout[1] =
         <<Response(FALSE,
                    "Failed to retrieve git commits. Ensure you are in a git repository.",
                    NoData)>>
    /\ exitCode[1] = <<1>>
    /\ checked[1] = 0

\* the listing of the range after the tag failed
C14_Witness ==
  /\ LogFailed(1)
  /\ last_tag[1] = <<"v1.0">>
  /\ cmds[1][2].args = <<"log", "v1.0..HEAD", "--pretty=format:%s">>
  /\ cmds[1][2].text = "fatal: error"
  /\ history # <<>>
  /\ ~stdout[1][1].success

(* The order of the tagger's commands *)

\* 1 for a listing, 2 for a tag creation, 3 for a push, 0 for anything else
Rank(c) ==
  IF c.args[1] = "tag" /\ Len(c.args) = 3 /\ c.args[2] = "-l" THEN 1
  ELSE IF c.args[1] = "tag" THEN 2
  ELSE IF c.args[1] = "push" THEN 3
  ELSE 0
Count(list, r) == Cardinality({i \in 1..Len(list) : Rank(list[i]) = r})

\* C15: within one invocation the tagger issues its commands in the order
\* existence check, tag creation, push; no creation when the check found the
\* tag; a push only with push set and right after the successful creation of
\* the same invocation; a failed creation ends in failure "Failed to create
\* tag: <error>" without a push; creation and push are issued at most once.
C15_StepOrder ==
  (IsTagger(1) /\ pc[1] # "idle") =>
    LET c == cmds[1] IN
    /\ \A i \in 1..Len(c) : Rank(c[i]) \in {1, 2, 3}
    /\ \A i \in 1..Len(c) : \A j \in i..Len(c) : Rank(c[i]) <= Rank(c[j])
    /\ (c # <<>> => Rank(c[1]) = 1)
    /\ Count(c, 2) <= 1 /\ Count(c, 3) <= 1
    /\ (FoundByCheck(1) => Count(c, 2) = 0)
    /\ \A i \in 1..Len(c) :
         Rank(c[i]) = 3 =>
           /\ Push(1)
           /\ i > 1 /\ Rank(c[i - 1]) = 2 /\ c[i - 1].res = "ok"
           /\ c[i].args = <<"push", "origin", TagName(1)>>
    /\ \A i \in 1..Len(c) :
         (Rank(c[i]) = 2 /\ c[i].res = "fail") =>
           /\ i = Len(c)
           /\ Exited(1)
           /\ stdout[1] = <<Response(FALSE, "Failed to create tag: " \o c[i].text, NoData)>>

\* push is set and the creation fails
C15_Witness ==
  /\ Exited(1) /\ IsTagger(1) /\ Push(1)
  /\ Len(cmds[1]) = 3
  /\ Rank(cmds[1][3]) = 2 /\ cmds[1][3].res = "fail"
  /\ TagName(1) \notin tags
  /\ stdout[1] = <<Response(FALSE, "Failed to create tag: fatal: error", NoData)>>

(* The detail of the validator's failure *)

\* positions of the retrieved commits that are not valid
InvalidIdx(p) == {i \in 1..Len(commits[p]) : ~ValidUnder(p, commits[p][i])}

\* C16: when a retrieved commit is invalid, the response is a failure whose
\* data has commits_checked = number of retrieved commits, invalid_count =
\* length of invalid_commits with 1 <= invalid_count <= commits_checked, and
\* invalid_commits holds exactly the invalid commits, each once with its full
\* message and its error, in the order of the retrieved history.
C16_FailureDetail ==
  (Retrieved(1) /\ WellFormed(1) /\ InvalidIdx(1) # {}) =>
    LET d == stdout[1][1].data
        listed == InvalidListed(1)
    IN  /\ ~stdout[1][1].success
        /\ d.commits_checked = <<Len(commits[1])>>
        /\ d.invalid_commits # <<>>
        /\ d.invalid_count = <<Len(listed)>>
        /\ 1 <= Len(listed) /\ Len(listed) <= Len(commits[1])
        /\ Len(listed) = Cardinality(InvalidIdx(1))
        /\ \A i \in InvalidIdx(1) :
             listed[Cardinality({j \in InvalidIdx(1) : j <= i})] =
               [message |-> commits[1][i],
                error |-> validate_conventional_commit(
                            commits[1][i], AllowedTypes(Config(1)),
                            RequireScope(Config(1)))[2]]

\* two invalid commits with different errors
C16_Witness ==
  /\ Retrieved(1) /\ WellFormed(1)
  /\ commits[1] = << <<"w","i","p",":"," ","z">>, <<"o","o","p","s">> >>
  /\ Config(1).allowed_types = <<>>
  /\ stdout[1][1].data.invalid_count = <<2>>
  /\ InvalidListed(1)[2] = [message |-> <<"o","o","p","s">>, error |-> FormatErrorAny]

(* The part of the history the validator looks at *)

\* a subject line that is kept: it has a character that is not white space
HasText(m) == \E i \in 1..Len(m) : ~IsSpace(m[i])

\* the first git command of the validator, the describe, succeeded
MarkerFound(p) == cmds[p] # <<>> /\ cmds[p][1].res = "ok"

\* the commits after the tag describe found; all of them when it found none
InRange(p) == IF MarkerFound(p) THEN SubSeq(history, 1, markerDepth) ELSE history

RetrievalFailure ==
  "Failed to retrieve git commits. Ensure you are in a git repository."

Lowered(m) ==
  [i \in 1..Len(m) |->
     IF \E k \in 1..26 : UpperCase[k] = m[i]
     THEN LowerCase[CHOOSE k \in 1..26 : UpperCase[k] = m[i]]
     ELSE m[i]]
HasUpper(m) == \E i \in 1..Len(m) : \E k \in 1..26 : UpperCase[k] = m[i]

\* C18: validate_conventional_commit gives a message the result it gives the
\* message written in lower case, for all allowed_types and require_scope; a
\* message with its type in upper case is valid whenever its lower-case form
\* is, and a type error names the type token in lower case.
C18_CaseInsensitive ==
  Returned =>
    /\ result[1] =
         validate_conventional_commit(Lowered(message), allowed_types, require_scope)
    /\ (~result[1][1] /\ result[1][2] \notin FormatErrors) =>
         result[1][2] =
           TypeError(Lowered(SubSeq(message, 1, TokenLen(message))), allowed_types)

\* a type written in upper case that is allowed in lower case
C18_Witness ==
  /\ Returned
  /\ message = <<"A","B",":"," ","x">>
  /\ HasUpper(message)
  /\ allowed_types = << <<"a","b">> >>
  /\ result[1] = <<TRUE, "">>

(* Two tagger invocations side by side *)

\* the process p reported that it created the tag
Created(p) == Exited(p) /\ stdout[p] # <<>> /\ stdout[p][1].success

\* every git command the process p issued returned, with success or an error
AllReturned(p) == \A i \in 1..Len(cmds[p]) : cmds[p][i].res # "raise"

\* the answers of the invocation that did not create the tag
RefusalMessages ==
  {"Tag v1.0 already exists"} \cup {"Failed to create tag: " \o e : e \in ErrTexts}

\* the commands create_tag issues: none of them forces or deletes a tag
PlainCommands(p) ==
  \A i \in 1..Len(cmds[p]) :
    /\ Rank(cmds[p][i]) \in {1, 2, 3}
    /\ \A k \in 1..Len(cmds[p][i].args) :
         cmds[p][i].args[k] \notin {"-f", "--force", "-d", "--delete"}

\* C19: of two tagger invocations for one tag name whose steps interleave in
\* any way (the creation of a tag being atomic and refusing a name that
\* exists), at most one reports a "Created ..." success; the other, whose git
\* commands all returned, reports failure "Tag <name> already exists" or
\* "Failed to create tag: ..."; neither issues a force or delete command, and a
\* tag that exists is never removed.
C19_NoOverwrite ==
  /\ [](~(Created(1) /\ Created(2)))
  /\ [](\A p \in Procs : \A q \in Procs \ {p} :
          Created(p) =>
            /\ stdout[p][1].message \in {"Created tag v1.0", "Created and pushed tag v1.0"}
            /\ (Exited(q) /\ AllReturned(q)) =>
                 (~stdout[q][1].success /\ stdout[q][1].message \in RefusalMessages))
  /\ [](\A p \in Procs : PlainCommands(p))
  /\ [][tags \subseteq tags' /\ remoteTags \subseteq remoteTags']_vars

\* both found the tag absent, one created it and the creation of the other
\* was refused
C19_Witness ==
  /\ Created(1) /\ Exited(2) /\ AllReturned(2)
  /\ Len(cmds[1]) = 3 /\ Len(cmds[2]) = 3
  /\ AllOk(cmds[1])
  /\ cmds[2][1].res = "ok" /\ cmds[2][2].res = "ok"
  /\ Rank(cmds[2][3]) = 2 /\ cmds[2][3].res = "fail"
  /\ "v1.0" \notin tagsBefore[1] /\ "v1.0" \notin tagsBefore[2]
  /\ stdout[2] = <<Response(FALSE, "Failed to create tag: fatal: error", NoData)>>

(* The validator and the repository *)

\* C20: on every path the validator issues only the describe and then one
\* log, two commands at most, and none of its steps changes the tags, the
\* commits or the remote of the repository.
C20_ReadOnly ==
  /\ [](IsValidator(1) =>
          /\ Len(cmds[1]) <= 2
          /\ (Len(cmds[1]) >= 1 => cmds[1][1].args = <<"describe", "--tags", "--abbrev=0">>)
          /\ (Len(cmds[1]) = 2 =>
                /\ cmds[1][2].args[1] = "log"
                /\ cmds[1][1].res # "raise"))
  /\ [][(IsValidator(1) /\ pc[1] \in {"main", "describe", "log"}) =>
          /\ tags' = tags /\ remoteTags' = remoteTags
          /\ history' = history
          /\ nearestTag' = nearestTag /\ markerDepth' = markerDepth]_vars

\* a validator that found invalid commits, after a tagger had created a tag
C20_Witness ==
  /\ Exited(1) /\ IsValidator(1)
  /\ Len(cmds[1]) = 2 /\ AllOk(cmds[1])
  /\ ~stdout[1][1].success
  /\ tags = {"v1.0"} /\ nearestTag = <<"v1.0">>
  /\ markerDepth = 2

====
